---- MODULE Spec2Model ----
(***************************************************************************)
(* Device-bound authentication and the encrypted local session cache.      *)
(*                                                                         *)
(* Server side: authenticate_user of the two repository implementations    *)
(* (AuthDatabaseManager on PostgreSQL, SupabaseDatabaseManager on the      *)
(* Supabase REST client), as interleavings of their storage reads and      *)
(* writes, and their create_session, verify_session and revoke_session     *)
(* over the user_sessions table.  Client side: SessionManager              *)
(* (save_session, load_session, clear_session, get_current_session) over   *)
(* one cache file per machine.                                             *)
(*                                                                         *)
(* Environment assumptions: the storage engine answers every statement     *)
(* (no connection loss inside a call), os.remove succeeds, and the server  *)
(* clock and the stored timestamps are in one time zone.                   *)
(***************************************************************************)
EXTENDS Integers, Sequences, FiniteSets, TLC

VARIABLES
    backend,    \* DATABASE_TYPE chosen by the factory: "render" | "supabase"
    users,      \* the users table: username -> row
    now,        \* the wall clock, datetime.now()
    lock,       \* AuthDatabaseManager.lock of each server process (0 = free)
    calls,      \* the authenticate_user calls: position, arguments, result
    first,      \* history: the first login that bound a device and returned success
    fingerprint,\* SessionManager.device_fingerprint of the machine the cache file is on
    file,       \* the content of session_file
    gcs,        \* the get_current_session call in flight, if any
    ret,        \* history: what the SessionManager call of this step returned
    sessions,   \* the user_sessions table: session_token -> row
    verifies,   \* the verify_session calls between their SELECT and their UPDATE
    past,       \* history: the tokens revoked, and the tokens a verify found dead
    sret,       \* history: what the session call of this step returned
    machine,    \* the hardware and operating system generate_device_id runs on
    volatile,   \* hostname, logged-in user, boot id and IP address of that machine
    ids,        \* history: the device ids generate_device_id returned
    logins,     \* the /auth/login requests: client, position, response
    saving,     \* the save_session call between its open() and its write()
    descriptors \* the descriptors of two machines and the strings hashed for them

vars == <<backend, users, now, lock, calls, first, fingerprint, file, gcs, ret,
          sessions, verifies, past, sret,
         machine, volatile, ids, logins, saving, descriptors>>

serverVars == <<backend, users, lock, calls, first>>
clientVars == <<fingerprint, file, gcs, ret>>
sessionVars == <<sessions, verifies, past, sret>>
deviceVars == <<machine, volatile, ids, descriptors>>

----------------------------------------------------------------------------
(* Bounds *)

MaxCalls == 2       \* authenticate_user calls in one behaviour
MaxTime == 2        \* the clock runs 0..MaxTime
MaxVerifies == 1    \* verify_session calls between their SELECT and their UPDATE

----------------------------------------------------------------------------
(* Values *)

Null == "<NULL>"                    \* SQL NULL / Python None of a text column
NullTime == 0 - 1                   \* SQL NULL of a timestamp column

Usernames == {"alice", "bob"}       \* "bob" has no row
Passwords == {"secret", "wrong"}
\* the (username, password) pairs presented: right, wrong password, unknown user
Credentials == {<<"alice", "secret">>, <<"alice", "wrong">>, <<"bob", "secret">>}
Devices == {"", "dA", "dB"}         \* presented device_fingerprint strings
Servers == {1, 2}                   \* server processes, each with its own manager
Calls == 1..MaxCalls
Times == 0..MaxTime

\* hashlib.sha256(password.encode()).hexdigest(): deterministic, collision-free here
sha256(s) == <<"sha256", s>>

\* Python truthiness of a nullable text column: None and '' are falsy
Truthy(s) == s # Null /\ s # ""

NoRow == [exists |-> FALSE, password_hash |-> sha256(""), device_fingerprint |-> Null,
          is_active |-> FALSE, expires_at |-> NullTime]

NoResult == [success |-> FALSE, error |-> "<pending>"]
Success == [success |-> TRUE, error |-> ""]
Failure(msg) == [success |-> FALSE, error |-> msg]

InvalidCredentials == Failure("Invalid credentials")
AccountInactive == Failure("Account inactive")
AccountExpired == Failure("Account expired")
DeviceMismatch == Failure("Account is bound to another device")

IdleCall == [pc |-> "idle", username |-> "alice", password |-> "secret",
             device_fingerprint |-> "", server |-> 1,
             result |-> NoResult, unbound_at_call |-> FALSE, after_first |-> FALSE]

----------------------------------------------------------------------------
(* SessionManager: the encrypted local session cache *)

Fingerprints == {"F1", "F2"}        \* get_device_fingerprint() of two machines
Tokens == {"", "T1"}                \* session_token values ('' is falsy)
UserInfos == {"", "alice:trial"}    \* user_info values (None and {} are falsy: "")
CacheExpiry == 1                    \* the expiry instant the cached records carry

\* expires_at strings: none, a naive ISO time, a UTC-suffixed ISO time, not a time
ExpiryStrings == {"", ToString(CacheExpiry), ToString(CacheExpiry) \o "Z", "soon"}

EmptySD == [session_token |-> "", user_id |-> "", user_info |-> "", expires_at |-> "",
            device_fingerprint |-> ""]

NoSignature == <<>>                 \* final_data.get('signature', '') of no signature

\* The plaintext of a cache file: the JSON text of final_data, text that is not
\* JSON ("malformed"), or the empty string ("blank").
Json(sd, signature) == [wf |-> "ok", session_data |-> sd, signature |-> signature]
Malformed == [wf |-> "malformed", session_data |-> EmptySD, signature |-> NoSignature]
Blank == [wf |-> "blank", session_data |-> EmptySD, signature |-> NoSignature]

\* The content of session_file.  kind: "absent" (no file), "empty" (only
\* whitespace), "garbage" (bytes that are no Fernet token), "token" (a Fernet
\* token of plaintext json under key).  saved_by is history: the fingerprint of
\* the machine whose save_session wrote exactly this content, else Null.
Absent == [kind |-> "absent", key |-> <<>>, json |-> Blank, saved_by |-> Null]
Empty == [kind |-> "empty", key |-> <<>>, json |-> Blank, saved_by |-> Null]
Garbage == [kind |-> "garbage", key |-> <<>>, json |-> Blank, saved_by |-> Null]

\* PBKDF2HMAC(SHA256, salt, 100000).derive(f"{device_fingerprint}_elevenlabs_session")
get_encryption_key(fp) == <<"pbkdf2", fp \o "_elevenlabs_session", "elevenlabs_salt_2024">>

\* Fernet(key).encrypt(data), base64-encoded
encrypt_data(fp, data) ==
    [kind |-> "token", key |-> get_encryption_key(fp), json |-> data, saved_by |-> Null]

\* Fernet(key).decrypt: the plaintext, or '' on any exception (not a token, or a
\* token made under another key)
decrypt_data(fp, blob) ==
    IF blob.kind = "token" /\ blob.key = get_encryption_key(fp) THEN blob.json ELSE Blank

\* sha256 over token, user_id, expires_at, self.device_fingerprint and the secret,
\* concatenated without separators
create_session_signature(sd, fp) ==
    sha256(sd.session_token \o sd.user_id \o sd.expires_at \o fp
           \o "elevenlabs_session_secret_" \o fp)

verify_session_signature(sd, stored_signature, fp) ==
    create_session_signature(sd, fp) = stored_signature

\* datetime.fromisoformat(s.replace('Z', '+00:00')): a naive time, an aware time,
\* or ValueError
fromisoformat(s) ==
    IF \E t \in 0..9 : ToString(t) = s
    THEN [ok |-> TRUE, aware |-> FALSE, t |-> CHOOSE t \in 0..9 : ToString(t) = s]
    ELSE IF \E t \in 0..9 : s \in {ToString(t) \o "Z", ToString(t) \o "+00:00"}
    THEN [ok |-> TRUE, aware |-> TRUE,
          t |-> CHOOSE t \in 0..9 : s \in {ToString(t) \o "Z", ToString(t) \o "+00:00"}]
    ELSE [ok |-> FALSE, aware |-> FALSE, t |-> 0]

\* "Check expiry" of load_session: "ok", "expired", or "raised" (ValueError of
\* fromisoformat, or TypeError of comparing the naive now() with an aware time)
check_expiry(expires_at_str, t) ==
    IF expires_at_str = "" THEN "ok"
    ELSE LET e == fromisoformat(expires_at_str)
         IN  IF ~e.ok \/ e.aware THEN "raised"
             ELSE IF t > e.t THEN "expired" ELSE "ok"

\* A mutant of clear_session: the file is left in place.
clear_session_kept(blob) == blob

\* os.remove(self.session_file) when it exists
clear_session(blob) == Absent

NoRecord == [some |-> FALSE, session_data |-> EmptySD]
Record(sd) == [some |-> TRUE, session_data |-> sd]

Loaded(result, blob, why) == [result |-> result, file |-> blob, why |-> why]

\* load_session on file content blob, on the machine with fingerprint fp, at time t:
\* the value returned, the file content left behind, and the branch taken.
load_checks(blob, fp, t) ==
    IF blob.kind = "absent" THEN Loaded(NoRecord, blob, "no file")
    ELSE IF blob.kind = "empty" THEN Loaded(NoRecord, blob, "empty file")
    ELSE LET decrypted_data == decrypt_data(fp, blob)
             session_data == decrypted_data.session_data
         IN  IF decrypted_data.wf = "blank"
             THEN Loaded(NoRecord, blob, "decryption")
             ELSE IF decrypted_data.wf = "malformed"
             THEN Loaded(NoRecord, clear_session(blob), "malformed")
             ELSE IF ~verify_session_signature(session_data, decrypted_data.signature, fp)
             THEN Loaded(NoRecord, clear_session(blob), "signature")
             ELSE IF session_data.device_fingerprint # fp
             THEN Loaded(NoRecord, clear_session(blob), "fingerprint")
             ELSE IF check_expiry(session_data.expires_at, t) = "expired"
             THEN Loaded(NoRecord, clear_session(blob), "expired")
             ELSE IF check_expiry(session_data.expires_at, t) = "raised"
             THEN Loaded(NoRecord, clear_session(blob), "malformed")
             ELSE Loaded(Record(session_data), blob, "valid")

\* A mutant of load_session: the fingerprint check is left out.
load_session_no_fingerprint_check(blob, fp, t) ==
    LET r == load_checks(blob, fp, t)
        d == decrypt_data(fp, blob)
    IN  IF r.why = "fingerprint" /\ check_expiry(d.session_data.expires_at, t) = "ok"
        THEN Loaded(Record(d.session_data), blob, "valid")
        ELSE r

\* A mutant of load_session: the fingerprint is a constant fallback string, the
\* same on every machine.
load_session_constant_fingerprint(blob, fp, t) == load_checks(blob, "F1", t)

load_session(blob, fp, t) == load_checks(blob, fp, t)

\* save_session: the content written to session_file
saved_file(session_token, user_info, expires_at, fp) ==
    LET session_data == [session_token |-> session_token, user_id |-> "",
                         user_info |-> user_info, expires_at |-> expires_at,
                         device_fingerprint |-> fp]
        signature == create_session_signature(session_data, fp)
    IN  [encrypt_data(fp, Json(session_data, signature)) EXCEPT !.saved_by = fp]

\* The exchange of verify_session_online with POST /auth/verify: what happened
\* on the wire.  "valid": 200 with valid true; "rejected": 200 with valid false
\* (the server's answer to every failure kind of verify_session); "http_error": a
\* status other than 200; "connection", "timeout": requests.RequestException;
\* "garbled": a 200 body that is no JSON.
RejectKinds == {"SessionNotFound", "SessionRevoked", "SessionExpired", "DeviceMismatch"}
Exchanges ==
    {[kind |-> "valid", user_info |-> u, reason |-> ""] : u \in UserInfos}
    \cup {[kind |-> "rejected", user_info |-> "", reason |-> r] : r \in RejectKinds}
    \cup {[kind |-> k, user_info |-> "", reason |-> ""] :
             k \in {"http_error", "connection", "timeout", "garbled"}}

\* A mutant of verify_session_online: a server that cannot be reached counts as
\* a valid answer (offline grace).
verify_session_online_offline_grace(x) ==
    IF x.kind \in {"valid", "connection", "timeout"}
    THEN [valid |-> TRUE, user_info |-> "alice:trial", error |-> ""]
    ELSE [valid |-> FALSE, user_info |-> "", error |-> "Invalid session"]

\* verify_session_online: (valid, user_info, error_message)
verify_session_online(x) ==
    IF x.kind = "valid" THEN [valid |-> TRUE, user_info |-> x.user_info, error |-> ""]
    ELSE IF x.kind = "rejected"
    THEN [valid |-> FALSE, user_info |-> "", error |-> "Invalid session"]
    ELSE IF x.kind = "http_error"
    THEN [valid |-> FALSE, user_info |-> "", error |-> "Server error"]
    ELSE IF x.kind \in {"connection", "timeout"}
    THEN [valid |-> FALSE, user_info |-> "", error |-> "Connection error"]
    ELSE [valid |-> FALSE, user_info |-> "", error |-> "Verification error"]

\* A mutant of verified_session: the cached record is returned whatever the answer.
verified_session_offline_fallback(session_data, v) == Record(session_data)

\* The tail of get_current_session: the record returned for the answer v of
\* verify_session_online (NoRecord: clear the cache and return None)
verified_session(session_data, v) ==
    IF v.valid /\ v.user_info # ""
    THEN Record([session_data EXCEPT !.user_info = v.user_info])
    ELSE NoRecord

\* requests: the verification requests the call in flight has sent
GcsIdle == [pc |-> "idle", session_data |-> EmptySD, saved_by |-> Null, requests |-> 0]

\* A mutant of after_exchange: a request that timed out or could not connect is
\* sent again.
after_exchange_retry(g, x) ==
    IF x.kind \in {"connection", "timeout"} /\ g.requests <= 2
    THEN [g EXCEPT !.requests = @ + 1]
    ELSE GcsIdle

\* get_current_session once verify_session_online has returned: every branch
\* returns, none sends another request.
after_exchange(g, x) == GcsIdle

\* A mutant of save_session: the serialized record is written as it is.
save_session_plaintext(blob, session_token, user_info, expires_at, fp, encrypted) ==
    [file |-> [saved_file(session_token, user_info, expires_at, fp)
                   EXCEPT !.kind = "plain"],
     result |-> TRUE]

\* save_session: the file it leaves and the value it returns.  encrypted: whether
\* _encrypt_data returned a token (it returns "" when Fernet raises, and
\* save_session then returns False before it opens the file).
save_session(blob, session_token, user_info, expires_at, fp, encrypted) ==
    IF encrypted
    THEN [file |-> saved_file(session_token, user_info, expires_at, fp), result |-> TRUE]
    ELSE [file |-> blob, result |-> FALSE]

\* The exchange of logout with POST /auth/logout.  "ok": 200 with success true;
\* "rejected": 200 with success false; "http_error": another status;
\* "connection", "timeout": requests.RequestException.
LogoutExchanges == {"ok", "rejected", "http_error", "connection", "timeout"}

\* A mutant of logout: the cache is cleared once the server has confirmed the
\* revocation, and kept otherwise.
logout_clear_when_revoked(blob, fp, t, session_token, x) ==
    LET r == IF session_token # "" THEN Loaded(NoRecord, blob, "") ELSE load_session(blob, fp, t)
        token == IF session_token # "" THEN session_token
                 ELSE IF r.result.some THEN r.result.session_data.session_token ELSE ""
    IN  [file |-> IF token # "" /\ x = "ok" THEN clear_session(r.file) ELSE r.file,
         token |-> token, sent |-> token # "", result |-> TRUE]

\* logout(session_token): the token revoked is the one given or else the cached
\* one; clear_session runs before the request; the request is sent when there is
\* a token, and its outcome x is reported on the console only.
logout(blob, fp, t, session_token, x) ==
    LET r == IF session_token # "" THEN Loaded(NoRecord, blob, "") ELSE load_session(blob, fp, t)
        token == IF session_token # "" THEN session_token
                 ELSE IF r.result.some THEN r.result.session_data.session_token ELSE ""
    IN  [file |-> clear_session(r.file), token |-> token, sent |-> token # "",
         result |-> TRUE]

\* No save_session call is between its open() and its write().  previous is
\* history: the file as it was when save_session was called.
NoSave == [pc |-> "idle", blob |-> Absent, previous |-> Absent]

NoReturn == [op |-> "none", result |-> NoRecord, existed |-> FALSE, why |-> "",
             exchange |-> "none", saved_by |-> Null]
Return(op, result, existed, why, exchange, saved_by) ==
    [op |-> op, result |-> result, existed |-> existed, why |-> why,
     exchange |-> exchange, saved_by |-> saved_by]

\* save_session(session_token, user_info, expires_at)
SaveSession(session_token, user_info, expires_at, encrypted) ==
    LET out == save_session(file, session_token, user_info, expires_at, fingerprint,
                            encrypted)
    IN  /\ gcs.pc = "idle"
        /\ file' = out.file
        /\ ret' = Return("save_session", NoRecord, file.kind # "absent",
                         IF out.result THEN "saved" ELSE "not saved", "none", Null)
        /\ UNCHANGED <<serverVars, sessionVars, now, fingerprint, gcs, deviceVars, logins,
                       saving>>

\* save_session up to open(self.session_file, 'w'): the record is serialized and
\* encrypted, and opening the file for writing creates it or truncates it.  When
\* _encrypt_data returned "" save_session returns False and the file is not opened.
SaveOpen(session_token, user_info, expires_at, encrypted) ==
    /\ gcs.pc = "idle"
    /\ saving.pc = "idle"
    /\ IF encrypted
       THEN /\ file' = Empty
            /\ saving' = [pc |-> "opened",
                          blob |-> saved_file(session_token, user_info, expires_at,
                                              fingerprint),
                          previous |-> file]
            /\ ret' = NoReturn
       ELSE /\ file' = file
            /\ saving' = saving
            /\ ret' = Return("save_session", NoRecord, file.kind # "absent", "not saved",
                             "none", Null)
    /\ UNCHANGED <<serverVars, sessionVars, now, fingerprint, gcs, deviceVars, logins>>

\* f.write(encrypted_data), the end of the with block, os.chmod and return True
SaveWrite ==
    /\ saving.pc = "opened"
    /\ file' = saving.blob
    /\ saving' = NoSave
    /\ ret' = Return("save_session", NoRecord, saving.previous.kind # "absent", "saved",
                     "none", Null)
    /\ UNCHANGED <<serverVars, sessionVars, now, fingerprint, gcs, deviceVars, logins>>

\* f.write raises (no space left on the device, an I/O error) with nothing or a
\* part of the blob written: the except branch reports it and returns False.
SaveWriteRaises(partial) ==
    /\ saving.pc = "opened"
    /\ file' = IF partial THEN Garbage ELSE Empty
    /\ saving' = NoSave
    /\ ret' = Return("save_session", NoRecord, saving.previous.kind # "absent",
                     "not saved", "none", Null)
    /\ UNCHANGED <<serverVars, sessionVars, now, fingerprint, gcs, deviceVars, logins>>

LoadSession ==
    LET r == load_session(file, fingerprint, now)
    IN  /\ gcs.pc = "idle"
        /\ file' = r.file
        /\ ret' = Return("load_session", r.result, file.kind # "absent", r.why, "none",
                         file.saved_by)
        /\ UNCHANGED <<serverVars, sessionVars, now, fingerprint, gcs, deviceVars, logins,
                       saving>>

\* get_current_session up to the verification request: load_session, the two
\* early returns, and the POST of verify_session_online.
GcsLoad ==
    LET r == load_session(file, fingerprint, now)
    IN  /\ gcs.pc = "idle"
        /\ file' = r.file
        /\ IF ~r.result.some \/ r.result.session_data.session_token = ""
           THEN /\ ret' = Return("get_current_session", NoRecord, file.kind # "absent",
                                 r.why, "none", file.saved_by)
                /\ UNCHANGED gcs
           ELSE /\ gcs' = [pc |-> "verifying", session_data |-> r.result.session_data,
                           saved_by |-> file.saved_by, requests |-> 1]
                /\ ret' = NoReturn
        /\ UNCHANGED <<serverVars, sessionVars, now, fingerprint, deviceVars, logins,
                       saving>>

\* The exchange completes as x and get_current_session returns.
GcsReturn(x) ==
    LET result == verified_session(gcs.session_data, verify_session_online(x))
    IN  /\ gcs.pc = "verifying"
        /\ file' = IF result.some THEN file ELSE clear_session(file)
        /\ gcs' = after_exchange(gcs, x)
        /\ ret' = Return("get_current_session", result, TRUE, "verified", x.kind,
                         gcs.saved_by)
        /\ UNCHANGED <<serverVars, sessionVars, now, fingerprint, deviceVars, logins,
                       saving>>

\* logout(session_token) with the revoke exchange completing as x
Logout(session_token, x) ==
    LET out == logout(file, fingerprint, now, session_token, x)
    IN  /\ gcs.pc = "idle"
        /\ file' = out.file
        /\ ret' = Return("logout", NoRecord, file.kind # "absent",
                         IF session_token # "" THEN "given" ELSE "cached",
                         IF out.sent THEN x ELSE "not sent", file.saved_by)
        /\ UNCHANGED <<serverVars, sessionVars, now, fingerprint, gcs, deviceVars, logins,
                       saving>>

\* Outside the program: a byte of the file is changed, so that its content is no
\* longer the Fernet token that was written.
Tamper ==
    /\ file.kind = "token"
    /\ file' = Garbage
    /\ ret' = NoReturn
    /\ UNCHANGED <<serverVars, sessionVars, now, fingerprint, gcs, deviceVars, logins,
                   saving>>

\* The records and signatures someone who knows the fingerprints can write.
ForgedRecords ==
    [session_token : Tokens, user_id : {""}, user_info : {"alice:trial"},
     expires_at : ExpiryStrings, device_fingerprint : Fingerprints]
    \cup [session_token : {"T1"}, user_id : {""}, user_info : {"bob:trial"},
          expires_at : {ToString(CacheExpiry)}, device_fingerprint : Fingerprints]

ForgedSignatures(sd) ==
    {NoSignature} \cup {create_session_signature(sd, g) : g \in Fingerprints}

\* The file contents that can be put in place of the file from outside.
ForgedFiles ==
    {Empty, Garbage}
    \cup {encrypt_data(k, j) : k \in Fingerprints, j \in {Malformed, Blank}}
    \cup UNION {{encrypt_data(k, Json(sd, sig)) :
                    k \in Fingerprints, sig \in ForgedSignatures(sd)} :
                sd \in ForgedRecords}

\* Outside the program: the file is replaced.
Forge(blob) ==
    /\ file' = blob
    /\ ret' = NoReturn
    /\ UNCHANGED <<serverVars, sessionVars, now, fingerprint, gcs, deviceVars, logins,
                   saving>>

\* Outside the program: the file is copied to the machine with fingerprint f, where
\* a SessionManager is constructed (device_fingerprint = get_device_fingerprint()).
CopyToMachine(f) ==
    /\ gcs.pc = "idle"
    /\ f # fingerprint
    /\ file.kind # "absent"
    /\ fingerprint' = f
    /\ ret' = NoReturn
    /\ UNCHANGED <<serverVars, sessionVars, now, file, gcs, deviceVars, logins, saving>>

----------------------------------------------------------------------------
(* authenticate_user *)

\* The row the SELECT of each implementation returns (NoRow when it returns none).
\* render:   WHERE u.username = %s AND u.is_active = true
\* supabase: .eq('username', username).eq('password_hash', password_hash)
select_user(b, tbl, username, password_hash) ==
    IF ~tbl[username].exists THEN NoRow
    ELSE IF b = "render"
         THEN (IF tbl[username].is_active THEN tbl[username] ELSE NoRow)
         ELSE (IF tbl[username].password_hash = password_hash THEN tbl[username] ELSE NoRow)

\* A mutant of account_checks: AuthDatabaseManager tells the caller that its
\* SELECT returned no row.
account_checks_user_not_found(b, user, password_hash, t) ==
    IF b = "render"
    THEN (IF ~user.exists THEN Failure("User not found")
          ELSE IF user.password_hash # password_hash THEN InvalidCredentials
          ELSE IF user.expires_at # NullTime /\ t > user.expires_at THEN AccountExpired
          ELSE NoResult)
    ELSE (IF ~user.exists THEN InvalidCredentials
          ELSE IF ~user.is_active THEN AccountInactive
          ELSE IF user.expires_at # NullTime /\ t > user.expires_at THEN AccountExpired
          ELSE NoResult)

\* The checks between the SELECT and the binding branch: the failure returned,
\* or NoResult when the call goes on to the device check.
account_checks(b, user, password_hash, t) ==
    IF b = "render"
    THEN (IF ~user.exists \/ user.password_hash # password_hash THEN InvalidCredentials
          ELSE IF user.expires_at # NullTime /\ t > user.expires_at THEN AccountExpired
          ELSE NoResult)
    ELSE (IF ~user.exists THEN InvalidCredentials
          ELSE IF ~user.is_active THEN AccountInactive
          ELSE IF user.expires_at # NullTime /\ t > user.expires_at THEN AccountExpired
          ELSE NoResult)

\* A mutant of device_check: a login from another device goes on to bind.
device_check_rebinds(user, device_fingerprint) ==
    IF Truthy(user.device_fingerprint) /\ user.device_fingerprint = device_fingerprint
    THEN Success
    ELSE NoResult

\* "Check device binding": the verdict on the row that was read, or NoResult when
\* the row is unbound and the call goes on to bind.
device_check(user, device_fingerprint) ==
    IF Truthy(user.device_fingerprint)
    THEN (IF user.device_fingerprint # device_fingerprint THEN DeviceMismatch ELSE Success)
    ELSE NoResult

\* A mutant of bind_device: the UPDATE is never committed.
bind_device_lost(tbl, username, device_fingerprint) == tbl

\* "Bind device on first login": UPDATE users SET device_fingerprint = %s WHERE id = %s
bind_device(tbl, username, device_fingerprint) ==
    [tbl EXCEPT ![username].device_fingerprint = device_fingerprint]

\* The server processes call c may run on.  Only AuthDatabaseManager keeps
\* per-process state (its lock), and the processes are interchangeable: the first
\* call is named process 1.
CallServers(c) == IF backend = "render" /\ c > 1 THEN Servers ELSE {1}

\* The caller enters authenticate_user(username, password, device_fingerprint)
\* on server process s.
Call(c, username, password, device_fingerprint, s) ==
    /\ calls[c].pc = "idle"
    /\ \A k \in DOMAIN calls : k < c => calls[k].pc # "idle"
    /\ calls' = [calls EXCEPT ![c] =
                    [IdleCall EXCEPT !.pc = "called",
                                     !.username = username,
                                     !.password = password,
                                     !.device_fingerprint = device_fingerprint,
                                     !.server = s,
                                     !.unbound_at_call =
                                         (users[username].exists
                                          /\ users[username].device_fingerprint = Null),
                                     !.after_first = first.done]]
    /\ UNCHANGED <<backend, users, now, lock, first, clientVars, sessionVars, deviceVars,
                   logins,
                   saving>>

\* The SELECT and the checks on its row.  AuthDatabaseManager runs them under
\* self.lock, which it holds until it returns.
AuthRead(c) ==
    LET a == calls[c]
        user == select_user(backend, users, a.username, sha256(a.password))
        gate == account_checks(backend, user, sha256(a.password), now)
        verdict == IF gate # NoResult THEN gate ELSE device_check(user, a.device_fingerprint)
    IN  /\ a.pc = "called"
        /\ backend = "render" => lock[a.server] = 0
        /\ IF verdict # NoResult
           THEN /\ calls' = [calls EXCEPT ![c].pc = "done", ![c].result = verdict]
                /\ UNCHANGED lock
           ELSE /\ calls' = [calls EXCEPT ![c].pc = "bind"]
                /\ lock' = IF backend = "render" THEN [lock EXCEPT ![a.server] = c] ELSE lock
        /\ UNCHANGED <<backend, users, now, first, clientVars, sessionVars, deviceVars,
                       logins,
                       saving>>

\* The unconditional UPDATE of the row read earlier, and the success return.
AuthBind(c) ==
    LET a == calls[c]
    IN  /\ a.pc = "bind"
        /\ users' = bind_device(users, a.username, a.device_fingerprint)
        /\ calls' = [calls EXCEPT ![c].pc = "done", ![c].result = Success]
        /\ lock' = IF backend = "render" THEN [lock EXCEPT ![a.server] = 0] ELSE lock
        /\ first' = IF first.done THEN first
                    ELSE [done |-> TRUE, call |-> c,
                          device_fingerprint |-> a.device_fingerprint]
        /\ UNCHANGED <<backend, now, clientVars, sessionVars, deviceVars, logins, saving>>

----------------------------------------------------------------------------
(* create_session, verify_session, revoke_session *)

\* duration_hours = 24: the clock of the model counts session lifetimes
SessionTTL == 1

SessionTokens == {"T1", "T2"}       \* session_token strings
IssuedTokens == SessionTokens       \* the ones secrets.token_urlsafe(32) returns
SessionDevices == {"dA", "dB"}      \* device_fingerprint of a session call
Verifies == 1..MaxVerifies

NoSession == [exists |-> FALSE, user_id |-> "alice", device_fingerprint |-> Null,
              expires_at |-> NullTime, is_active |-> FALSE, last_activity |-> NullTime]

EmptyStore == [tok \in SessionTokens |-> NoSession]

\* What verify_session hands to its caller.
\* SupabaseDatabaseManager: None, or the dict of user_id, username, account_type_id.
\* AuthDatabaseManager: a dict with 'valid' False and 'error', or with 'valid' True.
None == [returned |-> "None", valid |-> "absent", error |-> ""]
Invalid(msg) == [returned |-> "dict", valid |-> "false", error |-> msg]
SessionInfo(b) ==
    [returned |-> "dict", valid |-> IF b = "render" THEN "true" ELSE "absent", error |-> ""]

\* The call verified the session: a dict that does not say 'valid': False.
Succeeded(r) == r.returned = "dict" /\ r.valid # "false"

\* secrets.token_urlsafe(32): a value no row of the table carries
token_urlsafe(tbl) == CHOOSE tok \in IssuedTokens : ~tbl[tok].exists

\* The INSERT of create_session: is_active true, expires_at = now + duration_hours.
create_session(tbl, user_id, device_fingerprint, t) ==
    [tbl EXCEPT ![token_urlsafe(tbl)] =
        [exists |-> TRUE, user_id |-> user_id, device_fingerprint |-> device_fingerprint,
         expires_at |-> t + SessionTTL, is_active |-> TRUE, last_activity |-> t]]

\* A mutant of select_session: the PostgreSQL query does not filter on the device.
select_session_any_device(b, tbl, session_token, device_fingerprint) ==
    tbl[session_token]

\* The row the SELECT of verify_session returns (NoSession when it returns none).
\* render:   WHERE s.session_token = %s AND s.device_fingerprint = %s
\* supabase: .eq('session_token', session_token)
select_session(b, tbl, session_token, device_fingerprint) ==
    IF b = "render" /\ tbl[session_token].device_fingerprint # device_fingerprint
    THEN NoSession
    ELSE tbl[session_token]

\* A mutant of session_expired: the session is already expired at its expiry instant.
session_expired_early(expires_at, t) == t >= expires_at

\* render: datetime.now() > session['expires_at'];  supabase: expires_at < datetime.now(tz)
session_expired(expires_at, t) == t > expires_at

Verdict(result, why, write) == [result |-> result, why |-> why, write |-> write]

\* The checks of verify_session on what its SELECT returned, in the order of each
\* implementation: the result, the check that decided it, and the UPDATE the call
\* issues before it returns ("none" when it issues none).
verify_session(b, tbl, user, session_token, device_fingerprint, t) ==
    LET stored == tbl[session_token]
        session == select_session(b, tbl, session_token, device_fingerprint)
    IN  IF b = "render"
        THEN (IF ~session.exists
              THEN Verdict(Invalid("Invalid session"),
                           IF stored.exists THEN "device" ELSE "not_found", "none")
              ELSE IF ~session.is_active \/ ~user.is_active
              THEN Verdict(Invalid("Session or user inactive"),
                           IF session.is_active THEN "user_inactive" ELSE "inactive", "none")
              ELSE IF session_expired(session.expires_at, t)
              THEN Verdict(Invalid("Session expired"), "expired", "none")
              ELSE IF user.expires_at # NullTime /\ t > user.expires_at
              THEN Verdict(Invalid("Account expired"), "account_expired", "none")
              ELSE Verdict(SessionInfo(b), "ok", "touch"))
        ELSE (IF ~session.exists THEN Verdict(None, "not_found", "none")
              ELSE IF ~session.is_active THEN Verdict(None, "inactive", "none")
              ELSE IF session.device_fingerprint # device_fingerprint
              THEN Verdict(None, "device", "none")
              ELSE IF session_expired(session.expires_at, t)
              THEN Verdict(None, "expired", "deactivate")
              ELSE IF ~user.is_active THEN Verdict(None, "user_inactive", "none")
              ELSE Verdict(SessionInfo(b), "ok", "touch"))

\* A mutant of touch_session: the UPDATE has no WHERE clause.
touch_session_all(tbl, session_token, t) ==
    [tok \in DOMAIN tbl |->
        IF tbl[tok].exists THEN [tbl[tok] EXCEPT !.last_activity = t] ELSE tbl[tok]]

\* A mutant of touch_session: the UPDATE also sets is_active.
touch_session_reactivates(tbl, session_token, t) ==
    [tbl EXCEPT ![session_token].last_activity = t, ![session_token].is_active = TRUE]

\* "Update last activity" of a session that verified
touch_session(tbl, session_token, t) ==
    [tbl EXCEPT ![session_token].last_activity = t]

\* "Session expired, deactivate it" (SupabaseDatabaseManager only)
deactivate_session(tbl, session_token) ==
    [tbl EXCEPT ![session_token].is_active = FALSE]

\* A mutant of revoke_session: the UPDATE is never committed.
revoke_session_lost(tbl, session_token) ==
    [store |-> tbl, result |-> tbl[session_token].exists]

\* UPDATE user_sessions SET is_active = false WHERE session_token = %s, and the
\* value returned: whether the statement matched a row.
revoke_session(tbl, session_token) ==
    [store |-> IF tbl[session_token].exists
               THEN [tbl EXCEPT ![session_token].is_active = FALSE]
               ELSE tbl,
     result |-> tbl[session_token].exists]

IdleVerify == [pc |-> "idle", session_token |-> "T1", device_fingerprint |-> "dA",
               server |-> 1, result |-> None, why |-> "", write |-> "none",
               row |-> NoSession, at |-> 0,
               after_revoke |-> FALSE, after_dead |-> FALSE]

NoSessionReturn ==
    [op |-> "none", session_token |-> "T1", device_fingerprint |-> "dA",
     result |-> None, ok |-> FALSE, why |-> "", row |-> NoSession, at |-> 0,
     after_revoke |-> FALSE, after_dead |-> FALSE, before |-> EmptyStore]

\* The return of a verify_session call: its arguments, its result, the row of the
\* token and the clock as its SELECT found them, and whether the SELECT came after
\* a revoke of the token returned / after a verify found the token dead.
VerifyReturn(session_token, device_fingerprint, result, why, row, at, ar, ad) ==
    [NoSessionReturn EXCEPT !.op = "verify_session",
                            !.session_token = session_token,
                            !.device_fingerprint = device_fingerprint,
                            !.result = result, !.why = why, !.row = row, !.at = at,
                            !.after_revoke = ar, !.after_dead = ad]

\* The verify found the session expired or revoked.
FoundDead(why) == why \in {"inactive", "expired"}

\* The server processes a session call may run on; only AuthDatabaseManager keeps
\* per-process state (its lock), and the processes are interchangeable.
SessionServers == IF backend = "render" THEN Servers ELSE {1}
VerifyServers(v) == IF backend = "render" /\ v > 1 THEN Servers ELSE {1}

\* The lock value of verify call v (the authenticate_user calls use 1..MaxCalls).
VerifyLock(v) == Cardinality(DOMAIN calls) + v

\* create_session(user_id, device_fingerprint) on server process s.
CreateSession(device_fingerprint, s) ==
    /\ \E tok \in IssuedTokens : ~sessions[tok].exists
    /\ backend = "render" => lock[s] = 0
    /\ sessions' = create_session(sessions, "alice", device_fingerprint, now)
    /\ sret' = [NoSessionReturn EXCEPT !.op = "create_session",
                                       !.session_token = token_urlsafe(sessions),
                                       !.device_fingerprint = device_fingerprint,
                                       !.ok = TRUE, !.at = now]
    /\ UNCHANGED <<serverVars, clientVars, now, verifies, past, deviceVars, logins, saving>>

\* verify_session(session_token, device_fingerprint) on server process s: the
\* SELECT and the checks.  A call that issues no UPDATE returns here.
VerifyRead(v, session_token, device_fingerprint, s) ==
    LET row == sessions[session_token]
        out == verify_session(backend, sessions, users[row.user_id],
                              session_token, device_fingerprint, now)
        ar == session_token \in past.revoked
        ad == session_token \in past.dead
    IN  /\ verifies[v].pc = "idle"
        /\ backend = "render" => lock[s] = 0
        /\ IF out.write = "none"
           THEN /\ sret' = VerifyReturn(session_token, device_fingerprint,
                                        out.result, out.why, row, now, ar, ad)
                /\ past' = IF FoundDead(out.why)
                           THEN [past EXCEPT !.dead = @ \cup {session_token}]
                           ELSE past
                /\ UNCHANGED <<verifies, lock>>
           ELSE /\ verifies' = [verifies EXCEPT ![v] =
                                   [pc |-> "write", session_token |-> session_token,
                                    device_fingerprint |-> device_fingerprint,
                                    server |-> s, result |-> out.result,
                                    why |-> out.why, write |-> out.write,
                                    row |-> row, at |-> now,
                                    after_revoke |-> ar, after_dead |-> ad]]
                /\ lock' = IF backend = "render"
                           THEN [lock EXCEPT ![s] = VerifyLock(v)] ELSE lock
                /\ sret' = NoSessionReturn
                /\ UNCHANGED past
        /\ UNCHANGED <<backend, users, calls, first, clientVars, now, sessions, deviceVars,
                       logins,
                       saving>>

\* The UPDATE of a verify_session call, and its return.
VerifyWrite(v) ==
    LET a == verifies[v]
    IN  /\ a.pc = "write"
        /\ sessions' = IF a.write = "touch"
                       THEN touch_session(sessions, a.session_token, now)
                       ELSE deactivate_session(sessions, a.session_token)
        /\ sret' = VerifyReturn(a.session_token, a.device_fingerprint,
                                a.result, a.why, a.row, a.at,
                                a.after_revoke, a.after_dead)
        /\ past' = IF FoundDead(a.why)
                   THEN [past EXCEPT !.dead = @ \cup {a.session_token}]
                   ELSE past
        /\ verifies' = [verifies EXCEPT ![v] = IdleVerify]
        /\ lock' = IF backend = "render" THEN [lock EXCEPT ![a.server] = 0] ELSE lock
        /\ UNCHANGED <<backend, users, calls, first, clientVars, now, deviceVars, logins,
                       saving>>

\* revoke_session(session_token) on server process s.
RevokeSession(session_token, s) ==
    LET out == revoke_session(sessions, session_token)
    IN  /\ backend = "render" => lock[s] = 0
        /\ sessions' = out.store
        /\ sret' = [NoSessionReturn EXCEPT !.op = "revoke_session",
                                           !.session_token = session_token,
                                           !.ok = out.result,
                                           !.row = sessions[session_token],
                                           !.at = now, !.before = sessions]
        /\ past' = IF sessions[session_token].exists
                   THEN [past EXCEPT !.revoked = @ \cup {session_token}]
                   ELSE past
        /\ UNCHANGED <<serverVars, clientVars, now, verifies, deviceVars, logins, saving>>

----------------------------------------------------------------------------
(* POST /auth/login, POST /auth/verify and SessionManager.login *)

\* generate_device_fingerprint(): DeviceFingerprint().generate_device_id() of the
\* machine the server runs on
ServerFingerprint == "FS"

\* login: the device identifier handed to authenticate_user and create_session.
\* device_info is Null when the request has none (or one without the key
\* 'device_fingerprint'), else the value under that key.
login_device(device_info) ==
    IF device_info # Null THEN device_info ELSE ServerFingerprint

\* verify_session endpoint: the device identifier handed to auth_db.verify_session
verify_device(device_fingerprint) ==
    IF Truthy(device_fingerprint) THEN device_fingerprint ELSE ServerFingerprint

\* verify_session endpoint: the response for what auth_db.verify_session returned.
\* A falsy result is 'Invalid session'.  For a truthy one the handler reads
\* auth_db.supabase, which AuthDatabaseManager does not have: the AttributeError
\* is answered as valid False.
verify_response(b, verify_result) ==
    IF verify_result.returned = "None"
    THEN [valid |-> FALSE, error |-> "Invalid session"]
    ELSE IF b = "render"
    THEN [valid |-> FALSE, error |-> "Session verification error"]
    ELSE [valid |-> TRUE, error |-> ""]

NoResponse == [success |-> FALSE, session_token |-> "", user_info |-> "",
               expires_at |-> NullTime, error |-> ""]

\* pc: "idle", "sent" (the request is with the server, up to authenticate_user's
\* return), "created" (create_session has returned), "responded", "returned" (to
\* the caller of SessionManager.login).  machine: the fingerprint of the client's
\* machine.
IdleLogin == [pc |-> "idle", machine |-> "F1", password |-> "secret",
              device_info |-> Null, session_token |-> "", response |-> NoResponse]

\* A client on machine m posts to /auth/login.  SessionManager.login posts
\* username and password only (device_info = Null); other clients of the
\* endpoint put their fingerprint in device_info.
ClientLogin(c, m, password, device_info) ==
    /\ logins[c].pc = "idle"
    /\ \A k \in DOMAIN logins : k < c => logins[k].pc # "idle"
    /\ logins' = [logins EXCEPT ![c] = [IdleLogin EXCEPT !.pc = "sent",
                                                         !.machine = m,
                                                         !.password = password,
                                                         !.device_info = device_info]]
    /\ UNCHANGED <<serverVars, clientVars, sessionVars, now, deviceVars, saving>>

\* login: the request enters authenticate_user on server process s.
ApiLoginAuth(c, s) ==
    /\ logins[c].pc = "sent"
    /\ Call(c, "alice", logins[c].password, login_device(logins[c].device_info), s)

\* login, once authenticate_user has returned: the failure response, or
\* create_session with the device identifier authenticate_user was given.
ApiLoginSession(c) ==
    LET a == calls[c]
    IN  /\ logins[c].pc = "sent"
        /\ a.pc = "done"
        /\ IF a.result.success
           THEN /\ backend = "render" => lock[a.server] = 0
                /\ sessions' = create_session(sessions, a.username, a.device_fingerprint, now)
                /\ sret' = [NoSessionReturn EXCEPT !.op = "create_session",
                                                   !.session_token = token_urlsafe(sessions),
                                                   !.device_fingerprint = a.device_fingerprint,
                                                   !.ok = TRUE, !.at = now]
                /\ logins' = [logins EXCEPT ![c].pc = "created",
                                            ![c].session_token = token_urlsafe(sessions)]
           ELSE /\ logins' = [logins EXCEPT ![c].pc = "responded",
                                            ![c].response =
                                                [NoResponse EXCEPT !.error = a.result.error]]
                /\ sret' = NoSessionReturn
                /\ UNCHANGED sessions
        /\ UNCHANGED <<serverVars, clientVars, now, verifies, past, deviceVars, saving>>

\* login: session_expires_at = (datetime.now() + timedelta(hours=24)).isoformat()
\* and the LoginResponse.
ApiLoginRespond(c) ==
    /\ logins[c].pc = "created"
    /\ logins' = [logins EXCEPT ![c].pc = "responded",
                                ![c].response =
                                    [success |-> TRUE,
                                     session_token |-> logins[c].session_token,
                                     user_info |-> "alice:trial",
                                     expires_at |-> now + SessionTTL,
                                     error |-> ""]]
    /\ UNCHANGED <<serverVars, clientVars, sessionVars, now, deviceVars, saving>>

\* SessionManager.login from the response on: x is "delivered" (status 200 and
\* its JSON body) or "connection" (requests.RequestException).  The call saves
\* the session of a success response and returns True whatever save_session
\* returned.  file is the cache of the machine `fingerprint`; the cache of
\* another machine is not part of the state.
ClientLoginReturn(c, x, encrypted) ==
    LET l == logins[c]
        r == IF x = "delivered" THEN l.response
             ELSE [NoResponse EXCEPT !.error = "Connection error"]
        expires_at == IF r.expires_at = NullTime THEN "" ELSE ToString(r.expires_at)
        saves == r.success /\ r.session_token # "" /\ r.user_info # "" /\ expires_at # ""
        here == l.machine = fingerprint
    IN  /\ l.pc = "responded"
        /\ l.device_info = Null
        /\ logins' = [logins EXCEPT ![c].pc = "returned"]
        /\ file' = IF saves /\ here
                   THEN save_session(file, r.session_token, r.user_info, expires_at,
                                     fingerprint, encrypted).file
                   ELSE file
        /\ ret' = IF here
                  THEN Return("login",
                              IF r.success
                              THEN Record([session_token |-> r.session_token,
                                           user_id |-> "", user_info |-> r.user_info,
                                           expires_at |-> expires_at,
                                           device_fingerprint |-> l.machine])
                              ELSE NoRecord,
                              file.kind # "absent",
                              IF r.success THEN "success" ELSE r.error,
                              x, file.saved_by)
                  ELSE ret
        /\ UNCHANGED <<serverVars, sessionVars, now, fingerprint, gcs, deviceVars, saving>>

----------------------------------------------------------------------------
(* DeviceFingerprint *)

\* The machines: platform.system(), and what each descriptor source gives when it
\* is asked.  "value": a descriptor; "blank": it answers, without a descriptor (a
\* header line only, no matching line, empty output of a command that exited with
\* an error); "raises": the read or the subprocess raises (permission denied,
\* command missing, timeout).
Machines ==
    [system : {"Windows", "Linux", "Darwin"},
     cpu : {"value", "blank", "raises"}, motherboard : {"value", "blank", "raises"},
     storage : {"value", "blank", "raises"}, network : {"value", "blank", "raises"}]

\* The signals that change without the machine changing: platform.node(),
\* USERNAME / USER, /proc/sys/kernel/random/boot_id, the IP address.
Volatiles ==
    [hostname : {"hostA", "hostB"}, user : {"u1", "u2"}, boot_id : {"boot1", "boot2"},
     ip : {"10.0.0.1", "10.0.0.2"}]

\* f"{platform.processor()}_{platform.machine()}"
cpu_fallback == "x86_64" \o "_" \o "x86_64"

\* get_cpu_info: the Windows branch returns a non-empty ProcessorId or falls
\* through, the Linux branch returns the 'serial' line or falls through, the macOS
\* branch returns the output of sysctl whatever it is.
get_cpu_info(m) ==
    IF m.cpu = "raises" THEN cpu_fallback
    ELSE IF m.system = "Windows"
    THEN (IF m.cpu = "value" THEN "BFEBFBFF000906EA" ELSE cpu_fallback)
    ELSE IF m.system = "Linux"
    THEN (IF m.cpu = "value" THEN "00000000a1b2c3d4" ELSE cpu_fallback)
    ELSE (IF m.cpu = "value" THEN "Apple M1" ELSE "")

\* get_motherboard_info: the board serial or BIOS/hardware UUID, else
\* platform.node()
get_motherboard_info(m, v) ==
    IF m.motherboard = "value" THEN "BOARD-SERIAL-1" ELSE v.hostname

\* get_storage_info: the sorted serials joined with "|", else "unknown_storage"
get_storage_info(m) ==
    IF m.storage = "value" THEN "DISK-1" ELSE "unknown_storage"

\* get_network_info: the sorted MAC addresses of the non-virtual interfaces joined
\* with "|", else "unknown_mac"
get_network_info(m) ==
    IF m.network = "value" THEN "aa:bb:cc:00:00:01" ELSE "unknown_mac"

\* get_system_info: the boot id (Linux), then system, release and version
get_system_info(m, v) ==
    (IF m.system = "Linux" THEN v.boot_id \o "|" ELSE "") \o m.system \o "|6.1|#1"

\* collect_fingerprint_data
collect_fingerprint_data(m, v) ==
    [cpu |-> get_cpu_info(m),
     motherboard |-> get_motherboard_info(m, v),
     storage |-> get_storage_info(m),
     network |-> get_network_info(m),
     system |-> get_system_info(m, v),
     platform |-> m.system \o "_x86_64_64bit"]

\* filter(None, components): the non-empty strings, in order
RECURSIVE filter_none(_)
filter_none(components) ==
    IF components = <<>> THEN <<>>
    ELSE IF Head(components) = "" THEN filter_none(Tail(components))
    ELSE <<Head(components)>> \o filter_none(Tail(components))

\* "|".join(components)
RECURSIVE join(_)
join(components) ==
    IF components = <<>> THEN ""
    ELSE IF Len(components) = 1 THEN Head(components)
    ELSE Head(components) \o "|" \o join(Tail(components))

\* The first 32 hex digits of the hash, grouped 8-4-4-4-12
formatted_id(device_hash) == <<"8-4-4-4-12", device_hash>>

\* The string generate_device_id hashes: the stable components, with hostname
\* and user when include_volatile, the empty ones dropped, joined with "|"
combined(data, v, include_volatile) ==
    LET stable_components ==
            <<data.cpu, data.motherboard, data.storage, data.network, data.platform>>
            \o (IF include_volatile THEN <<v.hostname, v.user>> ELSE <<>>)
    IN  join(filter_none(stable_components))

\* generate_device_id(include_volatile)
generate_device_id(m, v, include_volatile) ==
    formatted_id(sha256(combined(collect_fingerprint_data(m, v), v, include_volatile)))

\* The descriptors a machine can have.  cpu: the processor id, '' when sysctl
\* prints nothing; motherboard: the board serial or UUID, else platform.node(),
\* which is '' when the host name cannot be determined; storage: the serials
\* lsblk / wmic / system_profiler list, any non-empty lines; network: the MAC
\* addresses; platform: system, machine and architecture.
Descriptors ==
    [cpu : {"", "id1"}, motherboard : {"", "id1"},
     storage : SUBSET {"D1", "D2", "D1|D2"}, network : SUBSET {"aa:bb:cc:00:00:01"},
     platform : {"Linux_x86_64_64bit"}]

\* sorted(...) of a set of these strings: they are listed here in str order
sorted(strings) ==
    SelectSeq(<<"D1", "D1|D2", "D2", "aa:bb:cc:00:00:01">>, LAMBDA x : x \in strings)

\* "|".join(sorted(storage_ids)) if storage_ids else "unknown_storage", and the
\* same for the MAC addresses with "unknown_mac"
joined(strings, unknown) == IF strings = {} THEN unknown ELSE join(sorted(strings))

\* collect_fingerprint_data on a machine with descriptors d
fingerprint_data(d) ==
    [cpu |-> d.cpu, motherboard |-> d.motherboard,
     storage |-> joined(d.storage, "unknown_storage"),
     network |-> joined(d.network, "unknown_mac"),
     platform |-> d.platform]

NotCombined == [ran |-> FALSE, combined |-> ""]
NoDescriptors ==
    LET d == [cpu |-> "id1", motherboard |-> "id1", storage |-> {}, network |-> {},
              platform |-> "Linux_x86_64_64bit"]
    IN  [data |-> <<d, d>>, runs |-> <<NotCombined, NotCombined>>]

\* generate_device_id on machine i builds the string it hashes
Combine(i) ==
    /\ ~descriptors.runs[i].ran
    /\ descriptors' =
          [descriptors EXCEPT
              !.runs[i] = [ran |-> TRUE,
                           combined |-> combined(fingerprint_data(descriptors.data[i]),
                                                 volatile, FALSE)]]
    /\ UNCHANGED <<serverVars, clientVars, sessionVars, now, machine, volatile, ids,
                   logins, saving>>

NoDigest == <<>>
NoRun == [ran |-> FALSE, include_volatile |-> FALSE, digest |-> NoDigest]

\* A call of generate_device_id returns.  ids.first keeps the id of the first
\* call with the default argument.
GenerateDeviceId(include_volatile) ==
    LET digest == generate_device_id(machine, volatile, include_volatile)
    IN  /\ ids' = [first |-> IF ~include_volatile /\ ids.first = NoDigest
                             THEN digest ELSE ids.first,
                   last |-> [ran |-> TRUE, include_volatile |-> include_volatile,
                             digest |-> digest]]
        /\ UNCHANGED <<serverVars, clientVars, sessionVars, now, machine, volatile, logins,
                       saving, descriptors>>

\* Outside the program: the machine is renamed, another user logs in, the machine
\* is rebooted, the machine gets another address.
ChangeVolatile(v) ==
    /\ v # volatile
    /\ \E k \in DOMAIN v : \A j \in DOMAIN v \ {k} : v[j] = volatile[j]
    /\ volatile' = v
    /\ ids' = [ids EXCEPT !.last = NoRun]
    /\ UNCHANGED <<serverVars, clientVars, sessionVars, now, machine, logins, saving,
                 descriptors>>

Tick ==
    /\ now < MaxTime
    /\ now' = now + 1
    /\ ret' = NoReturn
    /\ sret' = NoSessionReturn
    /\ ids' = [ids EXCEPT !.last = NoRun]
    /\ UNCHANGED <<serverVars, fingerprint, file, gcs, sessions, verifies, past,
                   machine, volatile, logins, saving, descriptors>>

----------------------------------------------------------------------------
(* The server-side specification *)

ExpiryAt == 1      \* the account expiry of the accounts that have one

InitUsers ==
    {[u \in Usernames |->
        IF u = "alice"
        THEN [exists |-> TRUE, password_hash |-> sha256("secret"),
              device_fingerprint |-> Null, is_active |-> act, expires_at |-> exp]
        ELSE NoRow] : act \in BOOLEAN, exp \in {NullTime, ExpiryAt}}

InitClientIdle ==
    /\ fingerprint = "F1"
    /\ file = Absent
    /\ gcs = GcsIdle
    /\ ret = NoReturn

InitDeviceIdle ==
    /\ machine = [system |-> "Linux", cpu |-> "value", motherboard |-> "value",
                  storage |-> "value", network |-> "value"]
    /\ volatile = [hostname |-> "hostA", user |-> "u1", boot_id |-> "boot1",
                   ip |-> "10.0.0.1"]
    /\ ids = [first |-> NoDigest, last |-> NoRun]
    /\ descriptors = NoDescriptors

InitSavingIdle == saving = NoSave

InitLoginsIdle == logins = [c \in Calls |-> IdleLogin]

InitSessionsIdle ==
    /\ sessions = EmptyStore
    /\ verifies = [v \in Verifies |-> IdleVerify]
    /\ past = [revoked |-> {}, dead |-> {}]
    /\ sret = NoSessionReturn

InitAuth ==
    /\ InitSavingIdle
    /\ InitLoginsIdle
    /\ InitDeviceIdle
    /\ backend \in {"render", "supabase"}
    /\ users \in InitUsers
    /\ now = 0
    /\ lock = [s \in Servers |-> 0]
    /\ calls = [c \in Calls |-> IdleCall]
    /\ first = [done |-> FALSE, call |-> 0, device_fingerprint |-> Null]
    /\ InitClientIdle
    /\ InitSessionsIdle

NextAuth ==
    \/ \E c \in Calls, cred \in Credentials, d \in Devices :
          \E s \in CallServers(c) : Call(c, cred[1], cred[2], d, s)
    \/ \E c \in Calls : AuthRead(c)
    \/ \E c \in Calls : AuthBind(c)
    \/ Tick

SpecAuth == InitAuth /\ [][NextAuth]_vars

\* The same calls with one more authenticate_user call in the behaviour: a login
\* that comes after two racing first logins.
RepeatCalls == 1..(MaxCalls + 1)

InitAuthRepeat ==
    /\ InitSavingIdle
    /\ InitLoginsIdle
    /\ InitDeviceIdle
    /\ backend \in {"render", "supabase"}
    /\ users \in InitUsers
    /\ now = 0
    /\ lock = [s \in Servers |-> 0]
    /\ calls = [c \in RepeatCalls |-> IdleCall]
    /\ first = [done |-> FALSE, call |-> 0, device_fingerprint |-> Null]
    /\ InitClientIdle
    /\ InitSessionsIdle

NextAuthRepeat ==
    \/ \E c \in RepeatCalls, cred \in Credentials, d \in Devices :
          \E s \in CallServers(c) : Call(c, cred[1], cred[2], d, s)
    \/ \E c \in RepeatCalls : AuthRead(c)
    \/ \E c \in RepeatCalls : AuthBind(c)
    \/ Tick

SpecAuthRepeat == InitAuthRepeat /\ [][NextAuthRepeat]_vars

----------------------------------------------------------------------------
(* The client-side specification *)

InitCache ==
    /\ InitSavingIdle
    /\ InitLoginsIdle
    /\ InitDeviceIdle
    /\ backend = "supabase"
    /\ users = CHOOSE u \in InitUsers : u["alice"].is_active /\ u["alice"].expires_at = NullTime
    /\ now = 0
    /\ lock = [s \in Servers |-> 0]
    /\ calls = [c \in Calls |-> IdleCall]
    /\ first = [done |-> FALSE, call |-> 0, device_fingerprint |-> Null]
    /\ InitClientIdle
    /\ InitSessionsIdle

NextCache ==
    \/ \E tok \in Tokens, e \in ExpiryStrings, encrypted \in BOOLEAN :
          SaveSession(tok, "alice:trial", e, encrypted)
    \/ LoadSession
    \/ GcsLoad
    \/ \E x \in Exchanges : GcsReturn(x)
    \/ \E tok \in Tokens, x \in LogoutExchanges : Logout(tok, x)
    \/ Tamper
    \/ \E blob \in ForgedFiles : Forge(blob)
    \/ \E f \in Fingerprints : CopyToMachine(f)
    \/ Tick

SpecCache == InitCache /\ [][NextCache]_vars

\* requests.post(..., timeout=10): the exchange of a call in flight completes.
SpecCacheLive == SpecCache /\ WF_vars(\E x \in Exchanges : GcsReturn(x))

----------------------------------------------------------------------------
(* save_session step by step, with nothing else writing the file *)

InitSave == InitCache

NextSave ==
    \/ \E tok \in Tokens, e \in ExpiryStrings, encrypted \in BOOLEAN :
          SaveOpen(tok, "alice:trial", e, encrypted)
    \/ SaveWrite
    \/ \E partial \in BOOLEAN : SaveWriteRaises(partial)
    \/ saving.pc = "idle" /\ LoadSession
    \/ Tick

SpecSave == InitSave /\ [][NextSave]_vars

----------------------------------------------------------------------------
(* The specification of the session calls *)

InitSession ==
    /\ InitSavingIdle
    /\ InitLoginsIdle
    /\ InitDeviceIdle
    /\ backend \in {"render", "supabase"}
    /\ users \in InitUsers
    /\ now = 0
    /\ lock = [s \in Servers |-> 0]
    /\ calls = [c \in Calls |-> IdleCall]
    /\ first = [done |-> FALSE, call |-> 0, device_fingerprint |-> Null]
    /\ InitClientIdle
    /\ InitSessionsIdle

\* SpecSession follows one session: create_session is called once, and the other
\* token is one that the store never held.
NextSession ==
    \/ /\ sessions = EmptyStore
       /\ \E d \in SessionDevices, s \in SessionServers : CreateSession(d, s)
    \/ \E v \in Verifies, tok \in SessionTokens, d \in SessionDevices :
          \E s \in VerifyServers(v) : VerifyRead(v, tok, d, s)
    \/ \E v \in Verifies : VerifyWrite(v)
    \/ \E tok \in SessionTokens, s \in SessionServers : RevokeSession(tok, s)
    \/ Tick

SpecSession == InitSession /\ [][NextSession]_vars

\* Two sessions of an active account side by side: both were issued at time 0, the
\* first to device "dA" (the device names are interchangeable), the second to the
\* same device or to another, and the calls on one run next to the other.
InitSessionPair ==
    /\ InitSavingIdle
    /\ InitLoginsIdle
    /\ InitDeviceIdle
    /\ backend \in {"render", "supabase"}
    /\ users \in {u \in InitUsers : u["alice"].is_active}
    /\ now = 0
    /\ lock = [s \in Servers |-> 0]
    /\ calls = [c \in Calls |-> IdleCall]
    /\ first = [done |-> FALSE, call |-> 0, device_fingerprint |-> Null]
    /\ InitClientIdle
    /\ \E d2 \in SessionDevices :
          sessions = create_session(create_session(EmptyStore, "alice", "dA", 0),
                                    "alice", d2, 0)
    /\ verifies = [v \in Verifies |-> IdleVerify]
    /\ past = [revoked |-> {}, dead |-> {}]
    /\ sret = NoSessionReturn

NextSessionPair ==
    \/ \E v \in Verifies, tok \in SessionTokens, d \in SessionDevices :
          \E s \in VerifyServers(v) : VerifyRead(v, tok, d, s)
    \/ \E v \in Verifies : VerifyWrite(v)
    \/ \E tok \in SessionTokens, s \in SessionServers : RevokeSession(tok, s)
    \/ Tick

SpecSessionPair == InitSessionPair /\ [][NextSessionPair]_vars

----------------------------------------------------------------------------
(* Claims about authenticate_user, checked under SpecAuth *)

\* Call c presented the right password of the existing account.
CorrectLogin(c) ==
    /\ calls[c].pc # "idle"
    /\ calls[c].username = "alice"
    /\ calls[c].password = "secret"

\* The account is active and not past its expiry.  The clock only advances and no
\* action changes is_active or expires_at, so this held at every earlier read too.
Healthy ==
    /\ users["alice"].is_active
    /\ users["alice"].expires_at = NullTime \/ now <= users["alice"].expires_at

\* Two completed logins with the right password, from two distinct device
\* identifiers, both entered while the account was unbound.
ConcurrentFirstLogins(c1, c2) ==
    /\ c1 # c2
    /\ CorrectLogin(c1) /\ CorrectLogin(c2)
    /\ calls[c1].pc = "done" /\ calls[c2].pc = "done"
    /\ calls[c1].unbound_at_call /\ calls[c2].unbound_at_call
    /\ Truthy(calls[c1].device_fingerprint) /\ Truthy(calls[c2].device_fingerprint)
    /\ calls[c1].device_fingerprint # calls[c2].device_fingerprint

\* C1: of two concurrent first logins from distinct devices on an unbound, healthy
\* account, exactly one returns success and the other the device-mismatch failure.
C1_ExactlyOneBinds ==
    \A c1, c2 \in Calls :
        (ConcurrentFirstLogins(c1, c2) /\ Healthy) =>
            \/ calls[c1].result = Success /\ calls[c2].result = DeviceMismatch
            \/ calls[c2].result = Success /\ calls[c1].result = DeviceMismatch

\* C2: once the account's device identifier is set, no step of authenticate_user
\* changes it.
C2_BoundIsImmutable ==
    [][Truthy(users["alice"].device_fingerprint) =>
          users'["alice"].device_fingerprint = users["alice"].device_fingerprint]_vars

\* C3: once the first logins with the right password on an unbound, healthy account
\* have all completed, the stored device identifier is not null and is the device
\* one of them presented.
C3_FinalDeviceIsOneOfThem ==
    \A c1, c2 \in Calls :
        (/\ ConcurrentFirstLogins(c1, c2)
         /\ Healthy
         /\ \A k \in Calls : calls[k].pc \in {"idle", "done"}) =>
            /\ users["alice"].device_fingerprint # Null
            /\ users["alice"].device_fingerprint \in
                   {calls[k].device_fingerprint : k \in {k \in Calls : CorrectLogin(k)}}

\* C3's case: both logins read the unbound row and both went on to bind.
C3_Witness ==
    \E c1, c2 \in Calls :
        /\ ConcurrentFirstLogins(c1, c2)
        /\ Healthy
        /\ calls[c1].result = Success /\ calls[c2].result = Success
        /\ \A k \in Calls : calls[k].pc \in {"idle", "done"}

\* C4: after the first login bound device A and returned success, the stored device
\* identifier is A, every later login with the right password from another device
\* fails with the device mismatch, and every later one from A succeeds.
C4_DeviceExclusivity ==
    (first.done /\ Truthy(first.device_fingerprint) /\ Healthy) =>
        /\ users["alice"].device_fingerprint = first.device_fingerprint
        /\ \A c \in Calls :
              (CorrectLogin(c) /\ calls[c].pc = "done" /\ calls[c].after_first) =>
                  IF calls[c].device_fingerprint = first.device_fingerprint
                  THEN calls[c].result = Success
                  ELSE calls[c].result = DeviceMismatch

\* Call c presented a wrong password for the existing account.
WrongPassword(c) ==
    /\ calls[c].pc # "idle"
    /\ calls[c].username = "alice"
    /\ calls[c].password # "secret"

\* C17: once a login has bound the healthy account to device D, every later login
\* with the right password from D succeeds, however many logins came before; and
\* every login with a wrong password fails with invalid credentials, whatever the
\* device and the binding.
C17_RepeatedLoginIsStable ==
    \A c \in DOMAIN calls :
        calls[c].pc = "done" =>
            /\ WrongPassword(c) => calls[c].result = InvalidCredentials
            /\ (/\ CorrectLogin(c)
                /\ Healthy
                /\ first.done /\ Truthy(first.device_fingerprint)
                /\ calls[c].after_first
                /\ calls[c].device_fingerprint = first.device_fingerprint) =>
                   calls[c].result = Success

\* C18: a login with the right password on an existing account that is not active
\* fails with the account-inactive failure, which is not the invalid-credentials one.
C18_InactiveAccountIsReported ==
    \A c \in DOMAIN calls :
        (calls[c].pc = "done" /\ CorrectLogin(c) /\ ~users["alice"].is_active) =>
            /\ calls[c].result = AccountInactive
            /\ calls[c].result # InvalidCredentials

\* Call c named a user that has no row.
UnknownUser(c) ==
    /\ calls[c].pc # "idle"
    /\ ~users[calls[c].username].exists

\* C19: the result of authenticate_user for a username that does not exist is the
\* result for an existing username with a wrong password.
C19_UnknownUserLooksLikeWrongPassword ==
    \A c1, c2 \in DOMAIN calls :
        (/\ calls[c1].pc = "done" /\ UnknownUser(c1)
         /\ calls[c2].pc = "done" /\ WrongPassword(c2)) =>
            calls[c1].result = calls[c2].result

\* C19's case: both kinds of call have returned, the second on an active account.
C19_Witness ==
    \E c1, c2 \in DOMAIN calls :
        /\ calls[c1].pc = "done" /\ UnknownUser(c1)
        /\ calls[c2].pc = "done" /\ WrongPassword(c2)
        /\ users["alice"].is_active

\* The stored row gives call c, as it stands, a reason to fail: unknown user, wrong
\* password, inactive or expired account, or an account bound to another device.
MustFail(c) ==
    LET a == calls[c]
        row == users[a.username]
    IN  \/ ~row.exists
        \/ row.password_hash # sha256(a.password)
        \/ ~row.is_active
        \/ row.expires_at # NullTime /\ now > row.expires_at
        \/ Truthy(row.device_fingerprint) /\ row.device_fingerprint # a.device_fingerprint

\* C37: a call of authenticate_user that returns a failure writes nothing to the
\* users table, and a call that reads a row giving it a reason to fail returns a
\* failure at once: it never reaches the bind, also not on an unbound account.
C37_FailedLoginBindsNothing ==
    [][\A c \in DOMAIN calls :
          /\ (calls[c].pc # "done" /\ calls'[c].pc = "done" /\ ~calls'[c].result.success)
                => users' = users
          /\ (calls[c].pc = "called" /\ calls'[c].pc # "called" /\ MustFail(c))
                => (calls'[c].pc = "done" /\ ~calls'[c].result.success /\ users' = users)]_vars

C37_Witness ==
    \E c \in DOMAIN calls :
        /\ calls[c].pc = "done"
        /\ calls[c].result \in {AccountExpired, AccountInactive, InvalidCredentials}
        /\ calls[c].username = "alice"
        /\ calls[c].unbound_at_call
        /\ users["alice"].device_fingerprint = Null

----------------------------------------------------------------------------
(* Claims about the local session cache, checked under SpecCache *)

Returned(op) == ret.op = op

\* C5: get_current_session returns a record only when, within the same call, the
\* verification request was answered and the answer confirmed the session.
C5_RecordOnlyAfterOnlineConfirmation ==
    (Returned("get_current_session") /\ ret.result.some) => ret.exchange = "valid"

\* C5's case: get_current_session has just returned a record.
C5_Witness == Returned("get_current_session") /\ ret.result.some

C8_InvalidCacheIsDeleted ==
    (/\ Returned("load_session")
     /\ ret.existed
     /\ ~ret.result.some
     /\ ret.why \in {"decryption", "malformed", "signature", "fingerprint", "expired"}) =>
        file.kind = "absent"

\* The record's expiry is not in the past (a record without one has none to pass).
NotPastExpiry(expires_at, t) ==
    \/ expires_at = ""
    \/ \E e \in 0..9 : ToString(e) = expires_at /\ t <= e

\* C9: load_session returns a record only if the file decrypts under this
\* machine's key, the stored signature is the recomputed one, the record's
\* fingerprint is this machine's and its expiry is not past; the record returned is
\* the whole stored record.
C9_LoadReturnsOnlyCheckedRecords ==
    (Returned("load_session") /\ ret.result.some) =>
        /\ file.kind = "token"
        /\ file.key = get_encryption_key(fingerprint)
        /\ file.json.wf = "ok"
        /\ file.json.signature =
               create_session_signature(file.json.session_data, fingerprint)
        /\ file.json.session_data.device_fingerprint = fingerprint
        /\ NotPastExpiry(file.json.session_data.expires_at, now)
        /\ ret.result.session_data = file.json.session_data

\* C9's case: load_session has just returned a record.
C9_Witness == Returned("load_session") /\ ret.result.some

\* C10: a file written by save_session on one machine and read by load_session or
\* get_current_session on a machine with another fingerprint yields no record.
C10_CacheIsNotPortable ==
    (/\ ret.op \in {"load_session", "get_current_session"}
     /\ ret.saved_by # Null
     /\ ret.saved_by # fingerprint) =>
        ~ret.result.some

\* C10's case: load_session has read a file that save_session wrote on the other
\* machine.
C10_Witness ==
    /\ Returned("load_session")
    /\ ret.saved_by # Null
    /\ ret.saved_by # fingerprint

EncryptedRecord(blob, fp) ==
    /\ blob.kind = "token"
    /\ blob.key = get_encryption_key(fp)
    /\ blob.json.wf = "ok"
    /\ blob.json.session_data.device_fingerprint = fp

\* C29: whatever save_session has written is the encryption, under the key of the
\* saving machine's fingerprint, of a serialized record, never the record in
\* plaintext; and a save_session whose encryption fails leaves the file as it was.
C29_CacheHoldsOnlyCiphertext ==
    /\ [](file.saved_by # Null => EncryptedRecord(file, file.saved_by))
    /\ [][ret'.op = "save_session" =>
             IF ret'.why = "saved"
             THEN file'.saved_by = fingerprint /\ EncryptedRecord(file', fingerprint)
             ELSE file' = file]_vars

C29_Witness ==
    /\ Returned("save_session")
    /\ ret.why = "not saved"
    /\ file.saved_by = fingerprint

\* C30: a call of get_current_session sends at most one verification request;
\* when the exchange completes, in whatever way, the call returns, and after a
\* timeout or a connection failure it has cleared the cache and returns no
\* session; and a call in flight does return.
C30_OneRequestThenReturn ==
    /\ [](gcs.requests <= 1)
    /\ [][(gcs.pc = "verifying" /\ gcs' # gcs) =>
             /\ gcs'.pc = "idle"
             /\ ret'.op = "get_current_session"
             /\ (ret'.exchange \in {"timeout", "connection"} =>
                    ~ret'.result.some /\ file' = Absent)]_vars
    /\ (gcs.pc = "verifying") ~> (gcs.pc = "idle")

C30_Witness ==
    /\ Returned("get_current_session")
    /\ ret.exchange = "connection"
    /\ ret.existed
    /\ file = Absent

\* The file is as save_session of this machine wrote it, with an expiry that is a
\* time not yet past.
SavedWithFutureExpiry ==
    /\ file.saved_by = fingerprint
    /\ fromisoformat(file.json.session_data.expires_at).ok
    /\ now <= fromisoformat(file.json.session_data.expires_at).t

\* C38: load_session on the file that save_session of the same machine wrote,
\* with an expiry in the future and nothing written or deleted in between,
\* returns the saved record: the same token, user info and expiry.
C38_SaveLoadRoundTrip ==
    [][(SavedWithFutureExpiry /\ ret'.op = "load_session") =>
          /\ ret'.result.some
          /\ ret'.result.session_data = file.json.session_data]_vars

\* C34: save_session writes the file atomically: in every state, one in which
\* save_session is between its open and its write or has failed included, the
\* file is absent or holds a complete blob, and while a save is under way it is
\* the file as it was before or the blob of this save, never empty or partial.
C34_SaveIsAtomic ==
    /\ file.kind \in {"absent", "token"}
    /\ saving.pc = "opened" => file \in {saving.previous, saving.blob}

\* The fields of a stored record that carry the token, the user id, the expiry
\* and the device fingerprint.  save_session stores no 'user_id' key: the user id
\* of a record is in its user_info.
SignedFields == {"session_token", "user_info", "expires_at", "device_fingerprint"}

\* sd2 is sd with one of these fields changed.
OneFieldChanged(sd, sd2) ==
    \E f \in SignedFields :
        /\ sd2[f] # sd[f]
        /\ \A g \in DOMAIN sd \ {f} : sd2[g] = sd[g]

\* C33: when one of these fields of the record that save_session stored is
\* changed and the stored signature is kept, _verify_session_signature fails on
\* the machine that saved it.
C33_SignatureCoversEachField ==
    [][(/\ file.saved_by = fingerprint
        /\ file'.kind = "token" /\ file'.json.wf = "ok"
        /\ file'.json.signature = file.json.signature
        /\ OneFieldChanged(file.json.session_data, file'.json.session_data)) =>
           ~verify_session_signature(file'.json.session_data, file'.json.signature,
                                     fingerprint)]_vars

----------------------------------------------------------------------------
(* Claims about the session calls, checked under SpecSession *)

SessionReturned(op) == sret.op = op

\* The verify_session call that returned presented the device the session of its
\* token was issued to.
OwnDevice ==
    /\ sret.row.exists
    /\ sret.device_fingerprint = sret.row.device_fingerprint

\* C11: verify_session(token, d) never returns success when d differs from the
\* device stored with the session, whatever its active flag, its expiry and the time.
C11_OtherDeviceNeverVerifies ==
    (SessionReturned("verify_session") /\ Succeeded(sret.result)) =>
        /\ sessions[sret.session_token].exists
        /\ sret.device_fingerprint = sessions[sret.session_token].device_fingerprint

\* C11's case: an active, unexpired session of a healthy account is presented from
\* another device, and the call has returned.
C11_Witness ==
    /\ SessionReturned("verify_session")
    /\ sret.row.exists /\ sret.row.is_active
    /\ sret.device_fingerprint # sret.row.device_fingerprint
    /\ sret.at <= sret.row.expires_at
    /\ Healthy
    /\ ~Succeeded(sret.result)

\* C12: after revoke_session(T) has returned for an existing token T, every
\* verify_session(T, d) that begins later fails, for every d and at every later time.
C12_RevokedNeverVerifies ==
    (SessionReturned("verify_session") /\ sret.after_revoke) => ~Succeeded(sret.result)

\* C12's case: the revoked session is presented from its own device before its
\* expiry, on a healthy account.
C12_Witness ==
    /\ SessionReturned("verify_session")
    /\ sret.after_revoke
    /\ OwnDevice
    /\ sret.at <= sret.row.expires_at
    /\ Healthy

\* C13: no session call sets the active flag of a session from false to true, and
\* once a verify_session of T has failed because T was expired or revoked, no later
\* verify_session of T succeeds.
C13_DeadIsTerminal ==
    /\ []((SessionReturned("verify_session") /\ sret.after_dead) => ~Succeeded(sret.result))
    /\ [][\A tok \in SessionTokens :
              (sessions[tok].exists /\ ~sessions[tok].is_active) =>
                  (sessions'[tok].exists /\ ~sessions'[tok].is_active)]_vars

\* C13's case: a verify of a token an earlier verify found expired, whose row still
\* carries the active flag, presented from its own device.
C13_Witness ==
    /\ SessionReturned("verify_session")
    /\ sret.after_dead
    /\ OwnDevice
    /\ sret.row.is_active
    /\ Healthy

C15_LazyExpiryDeactivates ==
    (/\ SessionReturned("verify_session")
     /\ OwnDevice
     /\ sret.row.is_active
     /\ users[sret.row.user_id].is_active
     /\ sret.at > sret.row.expires_at) =>
        ~sessions[sret.session_token].is_active

\* C16: revoke_session of an already revoked token or of a token that does not
\* exist leaves the store unchanged and reports success, and revoking a token twice
\* leaves the store as revoking it once.
C16_RevokeIdempotent ==
    /\ (SessionReturned("revoke_session") /\ ~(sret.row.exists /\ sret.row.is_active)) =>
           /\ sessions = sret.before
           /\ sret.ok
    /\ \A tok \in SessionTokens :
           revoke_session(revoke_session(sessions, tok).store, tok).store
               = revoke_session(sessions, tok).store

\* The failure kind of a verify_session call by the order of the checks: unknown
\* token, inactive session, other device, past expiry.
FirstFailingCheck(row, device_fingerprint, t) ==
    IF ~row.exists THEN "SessionNotFound"
    ELSE IF ~row.is_active THEN "SessionRevoked"
    ELSE IF row.device_fingerprint # device_fingerprint THEN "DeviceMismatch"
    ELSE IF t > row.expires_at THEN "SessionExpired"
    ELSE "none"

\* The failure kind a caller can read off what verify_session returned.  None
\* carries no kind.
ReportedKind(r) ==
    IF r.returned = "None" THEN "none"
    ELSE IF r.error = "Invalid session" THEN "SessionNotFound"
    ELSE IF r.error = "Session or user inactive" THEN "SessionRevoked"
    ELSE IF r.error = "Session expired" THEN "SessionExpired"
    ELSE "none"

\* C20: a failing verify_session reports the kind of the first check that fails, in
\* the order unknown token, inactive session, other device, past expiry.
C20_FailureKinds ==
    (/\ SessionReturned("verify_session")
     /\ FirstFailingCheck(sret.row, sret.device_fingerprint, sret.at) # "none") =>
        /\ ~Succeeded(sret.result)
        /\ ReportedKind(sret.result)
               = FirstFailingCheck(sret.row, sret.device_fingerprint, sret.at)

\* C39: whatever the interleaving of the SELECT and the UPDATE of verify_session
\* with revoke_session of the same token, a revoked session stays inactive (the
\* last-activity UPDATE of a verify that read before the revoke does not restore
\* the flag), and no verify_session that starts after the revoke has returned
\* succeeds.
C39_RevokeWinsOverConcurrentVerify ==
    /\ [](\A tok \in past.revoked : ~sessions[tok].is_active)
    /\ []((SessionReturned("verify_session") /\ sret.after_revoke) => ~Succeeded(sret.result))

\* C39's case: a verify_session that read the session before the revoke returns
\* success, after its UPDATE, when the revoke has completed.
C39_Witness ==
    /\ SessionReturned("verify_session")
    /\ Succeeded(sret.result)
    /\ ~sret.after_revoke
    /\ sret.session_token \in past.revoked
    /\ sessions[sret.session_token].last_activity = now
    /\ ~sessions[sret.session_token].is_active

\* Whether authenticate_user of implementation b accepts, on the stored users.
Accepts(b, username, password, device_fingerprint) ==
    LET user == select_user(b, users, username, sha256(password))
        gate == account_checks(b, user, sha256(password), now)
    IN  gate = NoResult /\ device_check(user, device_fingerprint) # DeviceMismatch

\* The user_sessions table verify_session of implementation b leaves.
StoreAfterVerify(b, session_token, device_fingerprint) ==
    LET out == verify_session(b, sessions, users[sessions[session_token].user_id],
                              session_token, device_fingerprint, now)
    IN  IF out.write = "touch" THEN touch_session(sessions, session_token, now)
        ELSE IF out.write = "deactivate" THEN deactivate_session(sessions, session_token)
        ELSE sessions

\* C31: on the same stored users and sessions, at the same time and for the same
\* arguments, AuthDatabaseManager and SupabaseDatabaseManager give the same
\* accept-or-reject verdict for authenticate_user and for verify_session, and
\* verify_session leaves the same user_sessions table.
C31_BackendsAreInterchangeable ==
    /\ \A cred \in Credentials, d \in Devices :
           Accepts("render", cred[1], cred[2], d) = Accepts("supabase", cred[1], cred[2], d)
    /\ \A tok \in SessionTokens, d \in SessionDevices :
           LET user == users[sessions[tok].user_id]
           IN  /\ Succeeded(verify_session("render", sessions, user, tok, d, now).result)
                  = Succeeded(verify_session("supabase", sessions, user, tok, d, now).result)
               /\ StoreAfterVerify("render", tok, d) = StoreAfterVerify("supabase", tok, d)

----------------------------------------------------------------------------
(* Claims about two sessions side by side, checked under SpecSessionPair *)

\* row and row2 differ at most in last_activity.
----------------------------------------------------------------------------
(* Logins through the API *)

InitLogin ==
    /\ InitSavingIdle
    /\ InitLoginsIdle
    /\ InitDeviceIdle
    /\ backend \in {"render", "supabase"}
    /\ users \in {u \in InitUsers : u["alice"].is_active}
    /\ now = 0
    /\ lock = [s \in Servers |-> 0]
    /\ calls = [c \in Calls |-> IdleCall]
    /\ first = [done |-> FALSE, call |-> 0, device_fingerprint |-> Null]
    /\ InitClientIdle
    /\ InitSessionsIdle

NextLogin ==
    \/ \E c \in Calls, m \in Fingerprints, password \in Passwords :
          \E device_info \in {Null, m} : ClientLogin(c, m, password, device_info)
    \/ \E c \in Calls : \E s \in CallServers(c) : ApiLoginAuth(c, s)
    \/ \E c \in Calls : AuthRead(c)
    \/ \E c \in Calls : AuthBind(c)
    \/ \E c \in Calls : ApiLoginSession(c)
    \/ \E c \in Calls : ApiLoginRespond(c)
    \/ \E c \in Calls, x \in {"delivered", "connection"}, encrypted \in BOOLEAN :
          ClientLoginReturn(c, x, encrypted)
    \/ Tick

SpecLogin == InitLogin /\ [][NextLogin]_vars

\* The login c got a success response.
LoginSucceeded(c) == logins[c].pc \in {"responded", "returned"} /\ logins[c].response.success

\* C22: the expiry a successful login returns to the client is the expiry stored
\* in the session row that the login created.
C22_ReturnedExpiryIsStoredExpiry ==
    \A c \in DOMAIN logins :
        LoginSucceeded(c) =>
            logins[c].response.expires_at = sessions[logins[c].session_token].expires_at

\* C24: when SessionManager.login has returned success, the cache file holds the
\* record of the session that login was issued: its token, user info and expiry.
C24_LoginSuccessIsCached ==
    (Returned("login") /\ ret.result.some) =>
        /\ file.kind = "token"
        /\ file.json.wf = "ok"
        /\ file.json.session_data.session_token = ret.result.session_data.session_token
        /\ file.json.session_data.user_info = ret.result.session_data.user_info
        /\ file.json.session_data.expires_at = ret.result.session_data.expires_at

\* The login c came from SessionManager.login and has reached authenticate_user.
ManagerLogin(c) == logins[c].pc # "idle" /\ logins[c].device_info = Null /\ calls[c].pc # "idle"

\* C25: the device identifier the server decides the binding on is the fingerprint
\* of the machine SessionManager.login ran on; so of two such logins from
\* machines with different fingerprints, with the right password, the second one
\* to be decided fails with the device mismatch.
C25_BindingDecidedOnClientFingerprint ==
    /\ \A c \in DOMAIN logins :
           ManagerLogin(c) => calls[c].device_fingerprint = logins[c].machine
    /\ \A c, k \in DOMAIN logins :
           (/\ ManagerLogin(c) /\ ManagerLogin(k)
            /\ logins[c].machine # logins[k].machine
            /\ users["alice"].expires_at = NullTime
            /\ calls[c].pc = "done" /\ calls[c].result.success
            /\ calls[k].pc = "done" /\ calls[k].after_first
            /\ calls[k].password = "secret") =>
               calls[k].result = DeviceMismatch

\* C36: every stored session carries the device identifier that is bound to the
\* user who owns it.
C36_SessionDeviceIsBoundDevice ==
    \A tok \in SessionTokens :
        sessions[tok].exists =>
            sessions[tok].device_fingerprint = users[sessions[tok].user_id].device_fingerprint

----------------------------------------------------------------------------
(* The verify endpoint on a session that a login created *)

\* The device_fingerprint values of the body of a verify request: none (as
\* SessionManager.verify_session_online sends), empty, or the client's own.
PresentedDevices == {Null, ""} \cup Fingerprints

InitVerifyApi ==
    /\ InitSavingIdle
    /\ InitLoginsIdle
    /\ InitDeviceIdle
    /\ backend \in {"render", "supabase"}
    /\ users \in {u \in InitUsers : u["alice"].is_active}
    /\ now = 0
    /\ lock = [s \in Servers |-> 0]
    /\ calls = [c \in Calls |-> IdleCall]
    /\ first = [done |-> FALSE, call |-> 0, device_fingerprint |-> Null]
    /\ InitClientIdle
    /\ \E device_info \in {Null} \cup Fingerprints :
          sessions = create_session(EmptyStore, "alice", login_device(device_info), 0)
    /\ verifies = [v \in Verifies |-> IdleVerify]
    /\ past = [revoked |-> {}, dead |-> {}]
    /\ sret = NoSessionReturn

NextVerifyApi ==
    \/ \E v \in Verifies, tok \in SessionTokens, d \in PresentedDevices :
          \E s \in VerifyServers(v) : VerifyRead(v, tok, verify_device(d), s)
    \/ \E v \in Verifies : VerifyWrite(v)
    \/ \E tok \in SessionTokens, s \in SessionServers : RevokeSession(tok, s)
    \/ Tick

SpecVerifyApi == InitVerifyApi /\ [][NextVerifyApi]_vars

\* C26: a verify request that presents no device identifier, for which the
\* endpoint hands its own fingerprint to verify_session, is never answered valid.
C26_NoDeviceIsNeverValid ==
    (sret.op = "verify_session" /\ sret.device_fingerprint = ServerFingerprint) =>
        ~verify_response(backend, sret.result).valid

\* C32: through the endpoint, with either implementation, the token of a session
\* issued by a login, presented before its expiry with the device identifier of
\* the login, while the session is not revoked and the account is not expired,
\* is answered valid.
C32_IssuedTokenIsValid ==
    (/\ sret.op = "verify_session"
     /\ sret.row.exists /\ sret.row.is_active
     /\ sret.device_fingerprint = sret.row.device_fingerprint
     /\ sret.at <= sret.row.expires_at
     /\ users[sret.row.user_id].is_active
     /\ users[sret.row.user_id].expires_at # NullTime
            => sret.at <= users[sret.row.user_id].expires_at) =>
        verify_response(backend, sret.result).valid

----------------------------------------------------------------------------
(* The device id as a function of the machine and its volatile signals *)

InitFingerprint ==
    /\ InitSavingIdle
    /\ InitLoginsIdle
    /\ backend = "supabase"
    /\ users \in {u \in InitUsers : u["alice"].is_active /\ u["alice"].expires_at = NullTime}
    /\ now = 0
    /\ lock = [s \in Servers |-> 0]
    /\ calls = [c \in Calls |-> IdleCall]
    /\ first = [done |-> FALSE, call |-> 0, device_fingerprint |-> Null]
    /\ InitClientIdle
    /\ InitSessionsIdle
    /\ machine \in Machines
    /\ volatile \in Volatiles
    /\ ids = [first |-> NoDigest, last |-> NoRun]
    /\ descriptors = NoDescriptors

NextFingerprint ==
    \/ \E include_volatile \in BOOLEAN : GenerateDeviceId(include_volatile)
    \/ \E v \in Volatiles : ChangeVolatile(v)
    \/ Tick

SpecFingerprint == InitFingerprint /\ [][NextFingerprint]_vars

\* generate_device_id has just returned the id of a call with the default argument
DefaultRun == ids.last.ran /\ ~ids.last.include_volatile

\* C27: the default device id does not depend on hostname, user, IP address, boot
\* id or time: a default call returns the id that the first default call on the
\* machine returned, whatever descriptor sources are available.
C27_DefaultIdIgnoresVolatile == DefaultRun => ids.last.digest = ids.first

HardwareSlots == {"cpu", "motherboard", "storage", "network"}

\* C28: generate_device_id returns an id, and the slot of every descriptor source
\* that is unavailable or fails holds a fallback string.
C28_FailingSlotsAreFilled ==
    ids.last.ran =>
        /\ ids.last.digest # NoDigest
        /\ \A slot \in HardwareSlots :
               machine[slot] # "value" =>
                   collect_fingerprint_data(machine, volatile)[slot] # ""

----------------------------------------------------------------------------
(* The string that is hashed, as a function of the descriptors of a machine *)

InitEncoding ==
    /\ InitSavingIdle
    /\ InitLoginsIdle
    /\ backend = "supabase"
    /\ users = CHOOSE u \in InitUsers : u["alice"].is_active /\ u["alice"].expires_at = NullTime
    /\ now = 0
    /\ lock = [s \in Servers |-> 0]
    /\ calls = [c \in Calls |-> IdleCall]
    /\ first = [done |-> FALSE, call |-> 0, device_fingerprint |-> Null]
    /\ InitClientIdle
    /\ InitSessionsIdle
    /\ machine = [system |-> "Linux", cpu |-> "value", motherboard |-> "value",
                  storage |-> "value", network |-> "value"]
    /\ volatile = [hostname |-> "hostA", user |-> "u1", boot_id |-> "boot1",
                   ip |-> "10.0.0.1"]
    /\ ids = [first |-> NoDigest, last |-> NoRun]
    /\ \E d1, d2 \in Descriptors :
          descriptors = [data |-> <<d1, d2>>, runs |-> <<NotCombined, NotCombined>>]

NextEncoding == \E i \in {1, 2} : Combine(i)

SpecEncoding == InitEncoding /\ [][NextEncoding]_vars

\* C35: the string that is hashed is an injective encoding of the descriptors:
\* two machines whose processor, board, storage list, network list or platform
\* differ, a slot that is empty on one of them included, get different strings.
C35_CombinedIsInjective ==
    (/\ descriptors.runs[1].ran /\ descriptors.runs[2].ran
     /\ descriptors.data[1] # descriptors.data[2]) =>
        descriptors.runs[1].combined # descriptors.runs[2].combined

SameButActivity(row, row2) == row2 = [row EXCEPT !.last_activity = row2.last_activity]

\* C21: the step in which verify_session(T, d) returns success changes nothing in
\* the store but the last_activity of session T: the active flag, expiry and device
\* of T, every other session and every user row are unchanged.
C21_VerifyTouchesOnlyActivity ==
    [][(sret'.op = "verify_session" /\ Succeeded(sret'.result)) =>
          /\ users' = users
          /\ SameButActivity(sessions[sret'.session_token], sessions'[sret'.session_token])
          /\ \A tok \in SessionTokens \ {sret'.session_token} :
                 sessions'[tok] = sessions[tok]]_vars

\* C21's case: a verify returned success and refreshed last_activity next to
\* another session that is still active.
C21_Witness ==
    /\ SessionReturned("verify_session") /\ Succeeded(sret.result)
    /\ sessions[sret.session_token].last_activity > sret.row.last_activity
    /\ \E tok \in SessionTokens \ {sret.session_token} :
           sessions[tok].exists /\ sessions[tok].is_active
                /\ sessions[tok].last_activity < sessions[sret.session_token].last_activity

====
